---- MODULE Spec2Model ----
(***************************************************************************)
(* parseErrorMessage (error-parsing module of the lending client): the     *)
(* parser that turns the text of a failed transaction simulation into a    *)
(* headline (mainError) and an ordered eventLog.                           *)
(*                                                                         *)
(* Strings are TLA+ strings; the k-th character (1-based) of s is          *)
(* SubSeq(s, k, k).  The source's indices i and j are kept 0-based, so     *)
(* the source's lines[i] is lines[i + 1] here.                             *)
(***************************************************************************)
EXTENDS Integers, Sequences, FiniteSets, TLC

VARIABLES
    input,          \* how the message was put together (headline, body lines)
    message,        \* the argument of parseErrorMessage
    pc,             \* position in the function body
    lines,          \* message.split('\n')
    mainError,      \* lines[0] || ''
    eventLog,       \* the entries committed so far
    currentEntry,   \* Partial<EventLogEntry>: the entry under construction
    i,              \* index of the line loop
    eventMatch,     \* result of line.match(...) for the line being processed
    topicsStr,      \* eventMatch[4]
    topics,         \* topics collected by the scan
    currentTopic,   \* buffer of the scan
    bracketCount,   \* bracket depth of the scan
    j,              \* index of the scan
    calls           \* the other calls in progress, each with its parameter,
                    \* position and locals

vars == <<input, message, pc, lines, mainError, eventLog, currentEntry, i,
          eventMatch, topicsStr, topics, currentTopic, bracketCount, j, calls>>

-----------------------------------------------------------------------------
(* Bounds of the model *)

\* largest number of body lines of an input put together from SmallPool
MaxBodyLines == 2
\* largest number of pieces of a generated topics body
MaxTopicsLen == 3
\* largest number of body lines of an input of the fair specification
MaxFairBodyLines == 1

-----------------------------------------------------------------------------
(* JavaScript values *)

\* undefined, for a value that is otherwise a string: <<>> is undefined and
\* <<s>> is the string s
Undefined == <<>>
Some(s) == <<s>>
\* null, the result of String.prototype.match when nothing matches
Null == [null |-> TRUE]
\* {} as Partial<EventLogEntry>: the record with no field
EmptyEntry == [f \in {} |-> f]

\* truthiness of string | undefined
Truthy(v) == v # Undefined /\ Len(v[1]) > 0

CharAt(s, k) == SubSeq(s, k, k)

\* the characters String.prototype.trim removes and \s matches
WhiteSpace == {" ", "\t", "\n", "\r", "\f"}
\* the characters \d matches
Digit == {"0", "1", "2", "3", "4", "5", "6", "7", "8", "9"}
\* the characters . does not match
LineTerminator == {"\n", "\r"}

RECURSIVE TrimStart(_)
TrimStart(s) ==
    IF Len(s) > 0 /\ CharAt(s, 1) \in WhiteSpace THEN TrimStart(Tail(s)) ELSE s

RECURSIVE TrimEnd(_)
TrimEnd(s) ==
    IF Len(s) > 0 /\ CharAt(s, Len(s)) \in WhiteSpace
    THEN TrimEnd(SubSeq(s, 1, Len(s) - 1))
    ELSE s

\* String.prototype.trimEnd in the place of trim
TrimEndOnly(s) == TrimEnd(s)

\* String.prototype.trim
Trim(s) == TrimEnd(TrimStart(s))

\* the position of the first "\n" at or after p, Len(s) + 1 if there is none
NextNewline(s, p) ==
    LET nl == {k \in p..Len(s) : CharAt(s, k) = "\n"}
    IN  IF nl = {} THEN Len(s) + 1 ELSE CHOOSE k \in nl : \A m \in nl : k <= m

RECURSIVE SplitFrom(_, _)
SplitFrom(s, p) ==
    LET e == NextNewline(s, p)
    IN  IF e > Len(s) THEN <<SubSeq(s, p, Len(s))>>
        ELSE <<SubSeq(s, p, e - 1)>> \o SplitFrom(s, e + 1)

\* message.split('\n'): never empty, "" gives <<"">>
Split(s) == SplitFrom(s, 1)

\* value of one decimal digit
DigitValue(c) ==
    CASE c = "0" -> 0 [] c = "1" -> 1 [] c = "2" -> 2 [] c = "3" -> 3
      [] c = "4" -> 4 [] c = "5" -> 5 [] c = "6" -> 6 [] c = "7" -> 7
      [] c = "8" -> 8 [] c = "9" -> 9

\* F applied to the value of v (v is evaluated once, as a JavaScript
\* expression is)
Bind(v, F(_)) == CHOOSE r \in {F(x) : x \in {v}} : TRUE

\* the decimal digit of a value 0..9
DigitChar(n) == SubSeq("0123456789", n + 1, n + 1)

\* A JavaScript number that holds a non-negative integer is written as its
\* decimal numeral, a string of digits without leading zeros ("0" for zero),
\* so that the values beyond 2^31 keep their digits; Infinity is "Infinity".

RECURSIVE StripZeros(_)
StripZeros(d) ==
    IF Len(d) > 1 /\ CharAt(d, 1) = "0" THEN StripZeros(Tail(d)) ELSE d

\* a < b for two numerals
Less(a, b) ==
    \/ Len(a) < Len(b)
    \/ /\ Len(a) = Len(b)
       /\ \E k \in 1..Len(a) :
             /\ SubSeq(a, 1, k - 1) = SubSeq(b, 1, k - 1)
             /\ DigitValue(CharAt(a, k)) < DigitValue(CharAt(b, k))

IsOdd(a) == DigitValue(CharAt(a, Len(a))) % 2 = 1

\* <<a div 2, a mod 2>>, digit by digit from the left
RECURSIVE HalveFrom(_, _, _, _)
HalveFrom(a, k, carry, acc) ==
    IF k > Len(a) THEN <<StripZeros(acc), carry>>
    ELSE Bind(carry * 10 + DigitValue(CharAt(a, k)), LAMBDA v :
            Bind(acc \o DigitChar(v \div 2), LAMBDA acc2 :
                HalveFrom(a, k + 1, v % 2, acc2)))

Halve(a) == HalveFrom(a, 1, 0, "")

\* 2 * a, digit by digit from the right
RECURSIVE DoubleFrom(_, _, _, _)
DoubleFrom(a, k, carry, acc) ==
    IF k = 0 THEN (IF carry > 0 THEN DigitChar(carry) \o acc ELSE acc)
    ELSE Bind(2 * DigitValue(CharAt(a, k)) + carry, LAMBDA v :
            Bind(DigitChar(v % 10) \o acc, LAMBDA acc2 :
                DoubleFrom(a, k - 1, v \div 10, acc2)))

Double(a) == DoubleFrom(a, Len(a), 0, "")

\* a + 1
RECURSIVE Succ(_)
Succ(a) ==
    IF Len(a) = 0 THEN "1"
    ELSE IF CharAt(a, Len(a)) = "9" THEN Succ(SubSeq(a, 1, Len(a) - 1)) \o "0"
    ELSE SubSeq(a, 1, Len(a) - 1) \o DigitChar(DigitValue(CharAt(a, Len(a))) + 1)

\* 2^53: below it every integer is a Number
TwoTo53 == "9007199254740992"

\* n = q * 2^e + rest with q < 2^53: q, e, the highest bit of rest (half) and
\* whether a lower bit of rest is set (sticky)
RECURSIVE Shift(_, _, _, _)
Shift(q, e, half, sticky) ==
    IF Less(q, TwoTo53) THEN [q |-> q, e |-> e, half |-> half, sticky |-> sticky]
    ELSE Bind(Halve(q), LAMBDA h : Shift(h[1], e + 1, h[2], sticky \/ half = 1))

\* q * 2^e
RECURSIVE Scale(_, _)
Scale(q, e) == IF e = 0 THEN q ELSE Bind(Double(q), LAMBDA d : Scale(d, e - 1))

\* the Number nearest to the integer n, ties to the even significand; a
\* value of 2^1024 or more is Infinity
ToDouble(n) ==
    Bind(Bind(n, LAMBDA v : Shift(v, 0, 0, FALSE)), LAMBDA r :
        Bind(IF r.half = 1 /\ (r.sticky \/ IsOdd(r.q)) THEN Succ(r.q) ELSE r.q, LAMBDA m :
            IF r.e > 971 \/ (r.e = 971 /\ m = TwoTo53) THEN "Infinity"
            ELSE Scale(m, r.e)))

\* Number.parseInt on a string of decimal digits (the only strings group 1
\* can hold): the Number nearest to the integer the digits write
ParseInt(s) == ToDouble(StripZeros(s))

-----------------------------------------------------------------------------
\* The entry grammar:
\*   /^\s*(\d+)\s*:\s*\[([^\]]+)\]\s*(?:contract:([^\s,]+),\s*)?topics:\[(.+?)\],\s*data:(.+)$/
\* A position p is the 1-based index of the next character to read.

\* greedy X* for a character class: the position after the longest run
RECURSIVE SkipWhile(_, _, _)
SkipWhile(s, p, class) ==
    IF p <= Len(s) /\ CharAt(s, p) \in class THEN SkipWhile(s, p + 1, class) ELSE p

\* greedy [^...]* for a negated class: the position after the longest run
RECURSIVE SkipUntil(_, _, _)
SkipUntil(s, p, stop) ==
    IF p <= Len(s) /\ CharAt(s, p) \notin stop THEN SkipUntil(s, p + 1, stop) ELSE p

\* a literal at position p
LitAt(s, p, lit) == p + Len(lit) - 1 <= Len(s) /\ SubSeq(s, p, p + Len(lit) - 1) = lit

\* (.+)$ from position p: at least one character, none a line terminator
RestIsData(s, p) ==
    p <= Len(s) /\ \A k \in p..Len(s) : CharAt(s, k) \notin LineTerminator

\* \],\s*data:(.+)$ at position e; the position where group 5 starts, 0 if no match
DataStart(s, e) ==
    IF ~LitAt(s, e, "],") THEN 0
    ELSE LET d == SkipWhile(s, e + 2, WhiteSpace)
         IN  IF LitAt(s, d, "data:") /\ RestIsData(s, d + 5) THEN d + 5 ELSE 0

\* (.+) from position t, greedily: the greatest e with the rest of the pattern
\* matching at e; 0 if there is none
TopicsEndGreedy(s, t, e) ==
    LET ends == {k \in e..Len(s) :
                    /\ DataStart(s, k) > 0
                    /\ \A n \in t..(k - 1) : CharAt(s, n) \notin LineTerminator}
    IN  IF ends = {} THEN 0 ELSE CHOOSE k \in ends : \A n \in ends : n <= k

\* (.+?) from position t, lazily: the least e > t with the rest of the pattern
\* matching at e and no line terminator in t..e-1; 0 if there is none
RECURSIVE TopicsEnd(_, _, _)
TopicsEnd(s, t, e) ==
    IF e > Len(s) \/ CharAt(s, e - 1) \in LineTerminator THEN 0
    ELSE IF DataStart(s, e) > 0 THEN e
    ELSE TopicsEnd(s, t, e + 1)

\* an opening bracket that may be missing: topics:\[?(.+?)\],\s*data:(.+)$
MatchTopicsOptionalBracket(s, p, g1, g2, g3) ==
    IF ~LitAt(s, p, "topics:") THEN Null
    ELSE Bind(IF LitAt(s, p, "topics:[") THEN TopicsEnd(s, p + 8, p + 9) ELSE 0, LAMBDA e :
            IF e # 0
            THEN <<Some(g1), Some(g2), g3,
                   Some(SubSeq(s, p + 8, e - 1)),
                   Some(SubSeq(s, DataStart(s, e), Len(s)))>>
            ELSE Bind(TopicsEnd(s, p + 7, p + 8), LAMBDA e2 :
                    IF e2 = 0 THEN Null
                    ELSE <<Some(g1), Some(g2), g3,
                           Some(SubSeq(s, p + 7, e2 - 1)),
                           Some(SubSeq(s, DataStart(s, e2), Len(s)))>>))

\* topics:\[(.+?)\],\s*data:(.+)$ at position p, groups 1..3 settled
MatchTopics(s, p, g1, g2, g3) ==
    IF ~LitAt(s, p, "topics:[") THEN Null
    ELSE Bind(TopicsEnd(s, p + 8, p + 9), LAMBDA e :
            IF e = 0 THEN Null
            ELSE <<Some(g1), Some(g2), g3,
                   Some(SubSeq(s, p + 8, e - 1)),
                   Some(SubSeq(s, DataStart(s, e), Len(s)))>>)

\* contract:([^\s,]+),\s* at position p, then the rest of the pattern
MatchWithContract(s, p, g1, g2) ==
    IF ~LitAt(s, p, "contract:") THEN Null
    ELSE Bind(SkipUntil(s, p + 9, WhiteSpace \cup {","}), LAMBDA q :
            IF q > p + 9 /\ LitAt(s, q, ",")
            THEN Bind(SkipWhile(s, q + 1, WhiteSpace), LAMBDA t :
                    MatchTopics(s, t, g1, g2, Some(SubSeq(s, p + 9, q - 1))))
            ELSE Null)

\* a contract field that is passed over when it does not fit:
\* \s*(?:contract:([^\s,]+),\s*)?.*?topics:\[ in the place of the pattern below
MatchContractLenient(s, p4, g1, g2) ==
    Bind(SkipWhile(s, p4, WhiteSpace), LAMBDA p :
        Bind(MatchWithContract(s, p, g1, g2), LAMBDA with :
            IF with # Null THEN with
            ELSE LET marks == {k \in p..Len(s) :
                                 /\ LitAt(s, k, "topics:[")
                                 /\ MatchTopics(s, k, g1, g2, Undefined) # Null
                                 /\ \A n \in p..(k - 1) : CharAt(s, n) \notin LineTerminator}
                 IN  IF marks = {} THEN Null
                     ELSE MatchTopics(s, CHOOSE k \in marks : \A n \in marks : k <= n,
                                      g1, g2, Undefined)))

\* \s*(?:contract:([^\s,]+),\s*)? after the label, then the rest of the
\* pattern: the group is tried first, and skipped when the pattern cannot be
\* completed with it
MatchContract(s, p4, g1, g2) ==
    Bind(SkipWhile(s, p4, WhiteSpace), LAMBDA p :
        Bind(MatchWithContract(s, p, g1, g2), LAMBDA with :
            IF with # Null THEN with ELSE MatchTopics(s, p, g1, g2, Undefined)))

\* \s*\[([^\]]+)\] at position p2, then the rest of the pattern
MatchLabel(s, p2, g1) ==
    Bind(SkipWhile(s, p2, WhiteSpace), LAMBDA p3 :
        Bind(SkipUntil(s, p3 + 1, {"]"}), LAMBDA p4 :
            IF LitAt(s, p3, "[") /\ p4 > p3 + 1 /\ LitAt(s, p4, "]")
            THEN MatchContract(s, p4 + 1, g1, SubSeq(s, p3 + 1, p4 - 1))
            ELSE Null))

\* ^\s*(\d+)\s*: at the start of the line, then the rest of the pattern
MatchIndex(s) ==
    Bind(SkipWhile(s, 1, WhiteSpace), LAMBDA p0 :
        Bind(SkipWhile(s, p0, Digit), LAMBDA p1 :
            Bind(SkipWhile(s, p1, WhiteSpace), LAMBDA p2 :
                IF p1 > p0 /\ LitAt(s, p2, ":")
                THEN MatchLabel(s, p2 + 1, SubSeq(s, p0, p1 - 1))
                ELSE Null)))

\* line.match(/.../): Null, or the groups <<1, 2, 3, 4, 5>>. Every greedy
\* run is followed by an atom that cannot start with a character of the run,
\* so giving characters back never yields a match.
Match(str) == Bind(str, LAMBDA s : MatchIndex(s))

\* eventMatch?.[k]
Group(m, k) == IF m = Null THEN Undefined ELSE m[k]

\* a wrong null test: if (eventMatch !== undefined)
IsEventEntryNotUndefined(m) == m # Undefined

\* eventMatch?.[1] && eventMatch?.[2] && eventMatch?.[4] && eventMatch?.[5]
IsEventEntry(m) ==
    Truthy(Group(m, 1)) /\ Truthy(Group(m, 2)) /\ Truthy(Group(m, 4)) /\ Truthy(Group(m, 5))

HeaderLine == "Event log (newest first):"

\* !line || line === 'Event log (newest first):'
IsSkipped(ln) == Len(ln) = 0 \/ ln = HeaderLine

\* currentEntry.index !== undefined
HasIndex(e) == "index" \in DOMAIN e

\* a push without the test of currentEntry.index
FlushAlways(log, e) == Append(log, e)

\* a push that drops an entry whose index is already in the log
FlushDeduplicated(log, e) ==
    IF HasIndex(e) /\ \A k \in 1..Len(log) : log[k].index # e.index
    THEN Append(log, e)
    ELSE log

\* if (currentEntry.index !== undefined) eventLog.push(currentEntry)
Flush(log, e) == IF HasIndex(e) THEN Append(log, e) ELSE log

-----------------------------------------------------------------------------
(* Inputs *)

TypeLabels ==
    {"Diagnostic Event", "Failed Diagnostic Event (not emitted)",
     "Failed Contract Event (not emitted)", "Contract Event"}

\* an entry line put together from its parts
Entry(idx, num, label, contract, body, data, sp, pad) ==
    [kind |-> "entry", idx |-> idx, num |-> num, label |-> label,
     contract |-> contract, body |-> body, data |-> data, sp |-> sp, pad |-> pad]

\* any other line
Raw(text) == [kind |-> "raw", text |-> text]

\* the text of a body line
Render(sh) ==
    IF sh.kind = "raw" THEN sh.text
    ELSE sh.pad \o sh.idx \o sh.sp \o ":" \o sh.sp \o "[" \o sh.label \o "]" \o sh.sp
         \o (IF sh.contract = Undefined THEN ""
             ELSE "contract:" \o sh.contract[1] \o "," \o sh.sp)
         \o "topics:[" \o sh.body \o "]," \o sh.sp \o "data:" \o sh.data \o sh.pad

RECURSIVE JoinBody(_)
JoinBody(shs) ==
    IF Len(shs) = 0 THEN "" ELSE "\n" \o Render(Head(shs)) \o JoinBody(Tail(shs))

\* the message of an input
MessageOf(in) == in.headline \o JoinBody(in.body)

\* the example lines of the parser's test, with their numbers 0, 9, 12 and 29
ExampleLine0 ==
    Entry("0", "0", "Diagnostic Event", Some("MOCK_CONTRACT_A"),
          "error, Error(WasmVm, InvalidAction)",
          "\"escalating error to VM trap from failed host function call: call\"",
          " ", "   ")
ExampleLine9 ==
    Entry("9", "9", "Failed Contract Event (not emitted)", Some("MOCK_CONTRACT_B"),
          "[Accrual], \"updated\"", "10000260", " ", "   ")
ExampleLine12 ==
    Entry("12", "12", "Contract Event", Some("MOCK_CONTRACT_A"), "Loan, updated",
          "[Loan, {borrower_address: MOCK_ADDRESS, nonce: 3}]", " ", "   ")
ExampleLine29 ==
    Entry("29", "29", "Diagnostic Event", Undefined, "fn_call, MOCK_CONTRACT_A, repay",
          "[{borrower_address: MOCK_ADDRESS, nonce: 3}, 2368612289]", " ", "   ")
ExampleHeadline ==
    "Transaction simulation failed: \"HostError: Error(WasmVm, InvalidAction)\""

\* the body lines of the inputs with several body lines
SmallPool ==
    {Raw(""), Raw("  "), Raw(HeaderLine), Raw("junk: [x"),
     Raw("1: [Contract Event] topics:[], data:x"),
     ExampleLine0, ExampleLine9, ExampleLine12, ExampleLine29,
     Entry("7", "7", "Foo", Undefined, "a", "x", "", ""),
     Entry("0", "0", "Contract Event", Undefined, "a,b", "x", "", ""),
     Entry("9007199254740992", "9007199254740992", "Contract Event", Undefined,
           "a", "x", " ", ""),
     Entry("9007199254740993", "9007199254740993", "Contract Event", Undefined,
           "a", "x", " ", ""),
     Entry("007", "7", "Failed Diagnostic Event (not emitted)", Some("C"),
           "[a, b], c", " [b], data:c", " ", "\t")}

Headlines ==
    {"", " ", "E", " E\t", ExampleHeadline, "0: [Contract Event] topics:[a], data:x"}

\* the digit groups of generated entry lines, with the numbers they declare
IndexForms == {<<"0", "0">>, <<"12", "12">>, <<"007", "7">>}
\* digit groups that declare numbers of 2^53 and more
LargeIndexForms ==
    {<<"9007199254740995", "9007199254740995">>,
     <<"072057594037927945", "72057594037927945">>}
Contracts == {Undefined, Some("C"), Some("topics:[x]")}
DataForms == {"x", " {k: v}", "[b], data:c"}
Spaces == {"", " ", " \t"}
TopicPieces == {"a", ",", "[", "]", " ", "(", ")"}

\* lines whose number is not a run of digits alone
OddNumberLines ==
    {Raw(n \o ": [Contract Event] topics:[a], data:x") :
        n \in {"-1", "+1", "1a", "1.5", "0x10", "1 2", ""}}

RECURSIVE BodiesOfLen(_)
BodiesOfLen(n) ==
    IF n = 0 THEN {""} ELSE {b \o p : b \in BodiesOfLen(n - 1), p \in TopicPieces}

\* the generated topics bodies: 1..MaxTopicsLen pieces
TopicBodies == UNION {BodiesOfLen(n) : n \in 1..MaxTopicsLen}

\* topics bodies with whitespace around their topics and with brackets that
\* close before they open
EdgeBodies ==
    {" a ,\tb ", " [a, b] , c\t", "a], b", "][,]", "a],[b,c", "],[,[a,b],c", "a]],[,b"}

\* the body lines of the inputs with one generated body line
RichPool ==
    {Entry(ix[1], ix[2], lab, c, "a", d, sp, "") :
        ix \in IndexForms, lab \in TypeLabels \cup {"Foo"}, c \in Contracts,
        d \in DataForms, sp \in Spaces}
    \cup {Entry("3", "3", "Contract Event", Undefined, b, "x", " ", "  ") :
            b \in TopicBodies \cup EdgeBodies}
    \cup {Entry(ix[1], ix[2], "Contract Event", Undefined, "a", "x", " ", "") :
            ix \in LargeIndexForms}
    \cup OddNumberLines
    \cup {Entry("5", "5", "Contract Event", Some("C"), "a", "x", " ", "\r")}

\* lines that are entry lines but for the text between the label and topics:[
MalformedContractLines ==
    {Raw("1: [Contract Event]" \o mid \o "topics:[a], data:x") :
        mid \in {" contract:A B, ", " contract:, ", " contract:C ", "contract:C",
                 " contract:A,B, ", " contract: C, ", " Contract:C, ",
                 " contract:C, contract:D, ", " x ", " contract:C,, ", " , ",
                 " contract:topics:[x] ", " contract:C\t,"}}

\* lines that are entry lines but for an empty topics list or for data that
\* is empty or whitespace
EmptyFieldLines ==
    {Raw("1: [Contract Event] " \o rest) :
        rest \in {"topics:[], data:x", "contract:C, topics:[], data:x", "topics:[a], data:",
                  "topics:[a], data: \t", "topics:[], data:", "topics:[],data: ",
                  "topics:[], data:x], data:", "topics:[a], b], data:  ",
                  "topics:[], data:x],data y"}}

\* entry lines with an empty topics list or with nothing after the last
\* data:, in which a later "]," with data: and text after it ends the topics
LaterMarkerLines ==
    {Entry("1", "1", "Contract Event", Undefined, "], data:x", "y", " ", ""),
     Entry("1", "1", "Contract Event", Undefined, "], data:x", " y", " ", ""),
     Entry("1", "1", "Contract Event", Undefined, "a", "x], data:", " ", ""),
     Entry("1", "1", "Contract Event", Undefined, "a", " x], data:", " ", " ")}

\* the entry lines before and after a line of the inputs that hold such a line
EntryBefore == Entry("7", "7", "Foo", Undefined, "a", "x", "", "")
EntryAfter == Entry("0", "0", "Contract Event", Some("C"), "a,b", "x", " ", "")

RECURSIVE BodiesOfLines(_)
BodiesOfLines(n) ==
    IF n = 0 THEN {<<>>}
    ELSE {Append(b, sh) : b \in BodiesOfLines(n - 1), sh \in SmallPool}

\* the headline of the inputs with body lines from SmallPool
BodyHeadlines == {" E\t"}

Inputs ==
    {[headline |-> h, body |-> <<>>] : h \in Headlines}
    \cup {[headline |-> h, body |-> b] :
            h \in BodyHeadlines, b \in UNION {BodiesOfLines(n) : n \in 1..MaxBodyLines}}
    \cup {[headline |-> "E", body |-> <<sh>>] : sh \in RichPool}
    \cup {[headline |-> "E", body |-> <<EntryBefore, sh, EntryAfter>>] :
            sh \in MalformedContractLines \cup EmptyFieldLines \cup LaterMarkerLines}

-----------------------------------------------------------------------------
(* parseErrorMessage, statement by statement *)

\* a[k] for a 0-based index: undefined outside the array
At(a, k) == IF k >= 0 /\ k < Len(a) THEN Some(a[k + 1]) ELSE Undefined

\* v || ''
OrEmpty(v) == IF Truthy(v) THEN v[1] ELSE ""

\* the lines ls, each with a newline before it
RECURSIVE JoinLines(_)
JoinLines(ls) == IF Len(ls) = 0 THEN "" ELSE "\n" \o Head(ls) \o JoinLines(Tail(ls))

\* v?.trim()
OptTrim(v) == IF v = Undefined THEN Undefined ELSE Some(Trim(v[1]))

\* v || ''
OrUndefinedAsEmpty(v) == IF Truthy(v) THEN v ELSE Some("")

\* v || undefined
OrUndefined(v) == IF Truthy(v) THEN v ELSE Undefined

\* a trimmed headline: (lines[0] || '').trim()
MainErrorTrimmed(ls) == Trim(OrEmpty(At(ls, 0)))

\* a headline that is the whole message: const mainError = message || ''
MainErrorOfMessage(ls) == OrEmpty(At(ls, 0)) \o JoinLines(Tail(ls))

\* const mainError = lines[0] || ''
MainErrorOf(ls) == OrEmpty(At(ls, 0))

\* a line loop that starts at the headline: let i = 0
LoopStartAtHeadline == 1 - 1

\* first value of the line loop's index
LoopStart == 1

\* a continue that skips the increment
ContinueWithoutIncrement(k) == k

\* continue: the for statement's i++ runs
Continue(k) == k + 1

\* a line that is not trimmed: const line = lines[i] || ''
LineUntrimmed == OrEmpty(At(lines, i))

\* const line = lines[i]?.trim() || ''
line == OrEmpty(OptTrim(At(lines, i)))

\* a depth that counts parentheses as well
NextBracketCountWithParentheses(bc, char) ==
    IF char \in {"[", "("} THEN bc + 1 ELSE IF char \in {"]", ")"} THEN bc - 1 ELSE bc

\* a depth that stops at 0: if (char === ']' && bracketCount > 0) bracketCount--
NextBracketCountClamped(bc, char) ==
    IF char = "[" THEN bc + 1 ELSE IF char = "]" /\ bc > 0 THEN bc - 1 ELSE bc

\* if (char === '[') bracketCount++; if (char === ']') bracketCount--;
NextBracketCount(bc, char) ==
    IF char = "[" THEN bc + 1 ELSE IF char = "]" THEN bc - 1 ELSE bc

\* a split at every comma
IsSeparatorAtAnyDepth(char, bc) == char = ","

\* char === ',' && bracketCount === 0, bracketCount already updated for char
IsSeparator(char, bc) == char = "," /\ bc = 0

\* a test of the trimmed buffer: if (currentTopic.trim()) topics.push(...)
PushLastIfNotBlank(ts, cur) == IF Len(Trim(cur)) > 0 THEN Append(ts, Trim(cur)) ELSE ts

\* a last topic pushed as it stands: topics.push(currentTopic)
PushLastUntrimmed(ts, cur) == IF Len(cur) > 0 THEN Append(ts, cur) ELSE ts

\* if (currentTopic) topics.push(currentTopic.trim())
PushLast(ts, cur) == IF Len(cur) > 0 THEN Append(ts, Trim(cur)) ELSE ts

\* an entry whose data keeps the whitespace after the marker: data: eventMatch[5]
NewEntryDataUntrimmed(m, ts) ==
    [index |-> ParseInt(m[1][1]),
     type |-> m[2][1],
     contract |-> OrUndefined(m[3]),
     topics |-> ts,
     data |-> m[5][1]]

\* the object literal of "Start new entry"
NewEntry(m, ts) ==
    [index |-> ParseInt(m[1][1]),
     type |-> m[2][1],
     contract |-> OrUndefined(m[3]),
     topics |-> ts,
     data |-> Trim(m[5][1])]

\* the call on the message of input before its first statement
InitLocals ==
    /\ message = MessageOf(input)
    /\ pc = "split"
    /\ lines = <<>>
    /\ mainError = ""
    /\ eventLog = <<>>
    /\ currentEntry = EmptyEntry
    /\ i = 0
    /\ eventMatch = Null
    /\ topicsStr = ""
    /\ topics = <<>>
    /\ currentTopic = ""
    /\ bracketCount = 0
    /\ j = 0

\* the call of the model before its first statement
InitCall == input \in Inputs /\ InitLocals

\* one call, no other call in progress
Init == InitCall /\ calls = <<>>

scanVars == <<topicsStr, topics, currentTopic, bracketCount, j>>

\* an entry under construction that lives outside the function: line 25 missing
SplitMessageKeepingEntry ==
    /\ pc = "split"
    /\ lines' = Split(message)
    /\ mainError' = MainErrorOf(lines')
    /\ eventLog' = <<>>
    /\ i' = LoopStart
    /\ pc' = "loop"
    /\ UNCHANGED <<calls, input, message, currentEntry, eventMatch, scanVars>>

\* lines 21-25: split, mainError, the empty eventLog and currentEntry, i = 1
SplitMessage ==
    /\ pc = "split"
    /\ lines' = Split(message)
    /\ mainError' = MainErrorOf(lines')
    /\ eventLog' = <<>>
    /\ currentEntry' = EmptyEntry
    /\ i' = LoopStart
    /\ pc' = "loop"
    /\ UNCHANGED <<calls, input, message, eventMatch, scanVars>>

\* line 27: i < lines.length fails
LoopExit ==
    /\ pc = "loop"
    /\ ~(i < Len(lines))
    /\ pc' = "flush"
    /\ UNCHANGED <<calls, input, message, lines, mainError, eventLog, currentEntry, i,
                   eventMatch, scanVars>>

\* lines 28-33: an empty line or the header: continue
SkipLine ==
    /\ pc = "loop"
    /\ i < Len(lines)
    /\ IsSkipped(line)
    /\ i' = Continue(i)
    /\ UNCHANGED <<calls, input, message, pc, lines, mainError, eventLog, currentEntry,
                   eventMatch, scanVars>>

\* a line that does not match discards the entry under construction
NoEntryDropsPending ==
    /\ pc = "loop"
    /\ i < Len(lines)
    /\ ~IsSkipped(line)
    /\ eventMatch' = Match(line)
    /\ ~IsEventEntry(eventMatch')
    /\ currentEntry' = EmptyEntry
    /\ i' = i + 1
    /\ UNCHANGED <<calls, input, message, pc, lines, mainError, eventLog, scanVars>>

\* lines 36-40: the condition of the if fails
NoEntry ==
    /\ pc = "loop"
    /\ i < Len(lines)
    /\ ~IsSkipped(line)
    /\ eventMatch' = Match(line)
    /\ ~IsEventEntry(eventMatch')
    /\ i' = i + 1
    /\ UNCHANGED <<calls, input, message, pc, lines, mainError, eventLog, currentEntry,
                   scanVars>>

\* lines 36-50: the condition holds; the previous entry is pushed and the scan
\* of eventMatch[4] starts. Reading eventMatch[4] of null throws a TypeError.
BeginEntry ==
    /\ pc = "loop"
    /\ i < Len(lines)
    /\ ~IsSkipped(line)
    /\ eventMatch' = Match(line)
    /\ IsEventEntry(eventMatch')
    /\ eventLog' = Flush(eventLog, currentEntry)
    /\ IF eventMatch' = Null
       THEN pc' = "raised" /\ UNCHANGED scanVars
       ELSE /\ topicsStr' = eventMatch'[4][1]
            /\ topics' = <<>>
            /\ currentTopic' = ""
            /\ bracketCount' = 0
            /\ j' = 0
            /\ pc' = "scan"
    /\ UNCHANGED <<calls, input, message, lines, mainError, currentEntry, i>>

\* a scan that pushes a topic at a separator only when the buffer is not empty
ScanCharSkippingEmpty ==
    /\ pc = "scan"
    /\ j < Len(topicsStr)
    /\ LET char == CharAt(topicsStr, j + 1)
       IN  /\ bracketCount' = NextBracketCount(bracketCount, char)
           /\ IF IsSeparator(char, bracketCount')
              THEN /\ topics' = PushLast(topics, currentTopic)
                   /\ currentTopic' = ""
              ELSE /\ currentTopic' = currentTopic \o char
                   /\ UNCHANGED topics
    /\ j' = j + 1
    /\ UNCHANGED <<calls, input, message, pc, lines, mainError, eventLog, currentEntry, i,
                   eventMatch, topicsStr>>

\* lines 52-63: one character of the scan
ScanChar ==
    /\ pc = "scan"
    /\ j < Len(topicsStr)
    /\ LET char == CharAt(topicsStr, j + 1)
       IN  /\ bracketCount' = NextBracketCount(bracketCount, char)
           /\ IF IsSeparator(char, bracketCount')
              THEN /\ topics' = Append(topics, Trim(currentTopic))
                   /\ currentTopic' = ""
              ELSE /\ currentTopic' = currentTopic \o char
                   /\ UNCHANGED topics
    /\ j' = j + 1
    /\ UNCHANGED <<calls, input, message, pc, lines, mainError, eventLog, currentEntry, i,
                   eventMatch, topicsStr>>

\* lines 52, 64-76: the scan is over; the last topic and the new currentEntry
EndEntry ==
    /\ pc = "scan"
    /\ ~(j < Len(topicsStr))
    /\ topics' = PushLast(topics, currentTopic)
    /\ currentEntry' = NewEntry(eventMatch, topics')
    /\ i' = i + 1
    /\ pc' = "loop"
    /\ UNCHANGED <<calls, input, message, lines, mainError, eventLog, eventMatch,
                   topicsStr, currentTopic, bracketCount, j>>

\* a return without the push of the last entry: lines 79-82 missing
FinalFlushMissing ==
    /\ pc = "flush"
    /\ pc' = "done"
    /\ UNCHANGED <<calls, input, message, lines, mainError, eventLog, currentEntry, i,
                   eventMatch, scanVars>>

\* lines 79-87: the last entry is pushed and the result returned
FinalFlush ==
    /\ pc = "flush"
    /\ eventLog' = Flush(eventLog, currentEntry)
    /\ pc' = "done"
    /\ UNCHANGED <<calls, input, message, lines, mainError, currentEntry, i, eventMatch,
                   scanVars>>

Next ==
    \/ SplitMessage
    \/ LoopExit
    \/ SkipLine
    \/ NoEntry
    \/ BeginEntry
    \/ ScanChar
    \/ EndEntry
    \/ FinalFlush

Spec == Init /\ [][Next]_vars

\* the calls the fair specification follows
FairInit == Init /\ Len(input.body) <= MaxFairBodyLines

\* the scheduling of a synchronous function: it runs to its return
FairSpec == FairInit /\ [][Next]_vars /\ WF_vars(Next)

\* the value returned
Result == [mainError |-> mainError, eventLog |-> eventLog]

-----------------------------------------------------------------------------
(* Calls one after the other: the next call starts where the last one
   returned, with whatever that call left in the locals. *)

\* the inputs of the calls that follow one another
SeqInputs ==
    {[headline |-> "E", body |-> <<>>],
     [headline |-> ExampleHeadline, body |-> <<ExampleLine9, ExampleLine12>>],
     [headline |-> "E", body |-> <<Raw("junk: [x")>>],
     [headline |-> "E", body |-> <<Entry("7", "7", "Foo", Undefined, "a", "x", "", "")>>],
     [headline |-> " E\t",
      body |-> <<Entry("007", "7", "Failed Diagnostic Event (not emitted)", Some("C"),
                       "[a, b], c", " [b], data:c", " ", "\t"),
                 Raw("")>>],
     [headline |-> "",
      body |-> <<Raw(HeaderLine),
                 Entry("0", "0", "Contract Event", Undefined, "a,b", "x", "", "")>>]}

SeqInit == input \in SeqInputs /\ InitLocals /\ calls = <<>>

\* line 20: the function is called again; nothing but the parameter is given
\* to the new call
CallAgain ==
    /\ pc = "done"
    /\ input' \in SeqInputs
    /\ message' = MessageOf(input')
    /\ pc' = "split"
    /\ UNCHANGED <<calls, lines, mainError, eventLog, currentEntry, i, eventMatch, scanVars>>

SeqNext == Next \/ CallAgain

SeqSpec == SeqInit /\ [][SeqNext]_vars

-----------------------------------------------------------------------------
(* One invocation as a value: the parameter, the position and the locals of
   a call of parseErrorMessage, and the function that takes it one statement
   further. *)

\* const line = lines[i]?.trim() || '' for the lines ls and the index k
LineOf(ls, k) == OrEmpty(OptTrim(At(ls, k)))

\* the call parseErrorMessage(msg) before its first statement
InitFrame(msg) ==
    [message |-> msg, pc |-> "split", lines |-> <<>>, mainError |-> "",
     eventLog |-> <<>>, currentEntry |-> EmptyEntry, i |-> 0, eventMatch |-> Null,
     topicsStr |-> "", topics |-> <<>>, currentTopic |-> "", bracketCount |-> 0,
     j |-> 0]

\* lines 21-25 and the initialiser of the for statement
StepSplit(f) ==
    Bind(Split(f.message), LAMBDA ls :
        [f EXCEPT !.lines = ls, !.mainError = MainErrorOf(ls), !.eventLog = <<>>,
                  !.currentEntry = EmptyEntry, !.i = LoopStart, !.pc = "loop"])

\* lines 36-50 for the match m of a line that is not skipped
StepMatch(f, m) ==
    IF ~IsEventEntry(m) THEN [f EXCEPT !.eventMatch = m, !.i = f.i + 1]
    ELSE IF m = Null
    THEN [f EXCEPT !.eventMatch = m, !.eventLog = Flush(f.eventLog, f.currentEntry),
                   !.pc = "raised"]
    ELSE [f EXCEPT !.eventMatch = m, !.eventLog = Flush(f.eventLog, f.currentEntry),
                   !.topicsStr = m[4][1], !.topics = <<>>, !.currentTopic = "",
                   !.bracketCount = 0, !.j = 0, !.pc = "scan"]

\* lines 27-50: the test of the for statement and one line
StepLine(f) ==
    IF ~(f.i < Len(f.lines)) THEN [f EXCEPT !.pc = "flush"]
    ELSE Bind(LineOf(f.lines, f.i), LAMBDA ln :
            IF IsSkipped(ln) THEN [f EXCEPT !.i = Continue(f.i)]
            ELSE Bind(Match(ln), LAMBDA m : StepMatch(f, m)))

\* lines 52-63 for the character char and the depth bc after it
StepChar(f, char, bc) ==
    IF IsSeparator(char, bc)
    THEN [f EXCEPT !.bracketCount = bc, !.topics = Append(f.topics, Trim(f.currentTopic)),
                   !.currentTopic = "", !.j = f.j + 1]
    ELSE [f EXCEPT !.bracketCount = bc, !.currentTopic = f.currentTopic \o char,
                   !.j = f.j + 1]

\* lines 52-76: the test of the scan and one character, or the new entry
StepScan(f) ==
    IF f.j < Len(f.topicsStr)
    THEN Bind(CharAt(f.topicsStr, f.j + 1), LAMBDA char :
            StepChar(f, char, NextBracketCount(f.bracketCount, char)))
    ELSE Bind(PushLast(f.topics, f.currentTopic), LAMBDA ts :
            [f EXCEPT !.topics = ts, !.currentEntry = NewEntry(f.eventMatch, ts),
                      !.i = f.i + 1, !.pc = "loop"])

\* lines 79-87
StepFlush(f) ==
    [f EXCEPT !.eventLog = Flush(f.eventLog, f.currentEntry), !.pc = "done"]

\* one statement of the call f; a call that returned or raised stays as it is
StepOf(f) ==
    CASE f.pc = "split" -> StepSplit(f)
      [] f.pc = "loop" -> StepLine(f)
      [] f.pc = "scan" -> StepScan(f)
      [] f.pc = "flush" -> StepFlush(f)
      [] OTHER -> f

\* the call f carried to the end of the scan it is in
RECURSIVE RunScan(_)
RunScan(f) == IF f.pc = "scan" THEN RunScan(StepOf(f)) ELSE f

\* the call f carried to its end
RECURSIVE RunFrom(_)
RunFrom(f) == IF f.pc \in {"done", "raised"} THEN f ELSE RunFrom(RunScan(StepOf(f)))

\* the value parseErrorMessage(msg) returns
Parse(msg) ==
    Bind(RunFrom(InitFrame(msg)), LAMBDA f :
        [mainError |-> f.mainError, eventLog |-> f.eventLog])

\* the running call as a value
Frame ==
    [message |-> message, pc |-> pc, lines |-> lines, mainError |-> mainError,
     eventLog |-> eventLog, currentEntry |-> currentEntry, i |-> i,
     eventMatch |-> eventMatch, topicsStr |-> topicsStr, topics |-> topics,
     currentTopic |-> currentTopic, bracketCount |-> bracketCount, j |-> j]

\* StepOf takes the running call where the actions take it
StepOfAgrees == [][Frame' = StepOf(Frame)]_vars

-----------------------------------------------------------------------------
(* The second definition of parseErrorMessage in the source, the one marked
   "copied from ErrorDialog.tsx" (lines 108-178), statement by statement; it
   shares with the first the JavaScript library (trim, split, parseInt) and
   nothing else. *)

\* first value of the line loop's index
LoopStartCopy == 1

\* continue: the for statement's i++ runs
ContinueCopy(k) == k + 1

\* currentEntry.index !== undefined
HasIndexCopy(e) == "index" \in DOMAIN e

\* (.+)$ from position p: at least one character, none a line terminator
RestIsDataCopy(s, p) ==
    p <= Len(s) /\ \A k \in p..Len(s) : CharAt(s, k) \notin LineTerminator

\* \],\s*data:(.+)$ at position e; the position where group 5 starts, 0 if no match
DataStartCopy(s, e) ==
    IF ~LitAt(s, e, "],") THEN 0
    ELSE LET d == SkipWhile(s, e + 2, WhiteSpace)
         IN  IF LitAt(s, d, "data:") /\ RestIsDataCopy(s, d + 5) THEN d + 5 ELSE 0

\* (.+?) from position t, lazily: the least e > t with the rest of the pattern
\* matching at e and no line terminator in t..e-1; 0 if there is none
RECURSIVE TopicsEndCopy(_, _, _)
TopicsEndCopy(s, t, e) ==
    IF e > Len(s) \/ CharAt(s, e - 1) \in LineTerminator THEN 0
    ELSE IF DataStartCopy(s, e) > 0 THEN e
    ELSE TopicsEndCopy(s, t, e + 1)

\* topics:\[(.+?)\],\s*data:(.+)$ at position p, groups 1..3 settled
MatchTopicsCopy(s, p, g1, g2, g3) ==
    IF ~LitAt(s, p, "topics:[") THEN Null
    ELSE Bind(TopicsEndCopy(s, p + 8, p + 9), LAMBDA e :
            IF e = 0 THEN Null
            ELSE <<Some(g1), Some(g2), g3,
                   Some(SubSeq(s, p + 8, e - 1)),
                   Some(SubSeq(s, DataStartCopy(s, e), Len(s)))>>)

\* the contract group without its comma: contract:([^\s,]+)\s*
MatchWithContractCopyNoComma(s, p, g1, g2) ==
    IF ~LitAt(s, p, "contract:") THEN Null
    ELSE Bind(SkipUntil(s, p + 9, WhiteSpace \cup {","}), LAMBDA q :
            IF q > p + 9
            THEN Bind(SkipWhile(s, q, WhiteSpace), LAMBDA t :
                    MatchTopicsCopy(s, t, g1, g2, Some(SubSeq(s, p + 9, q - 1))))
            ELSE Null)

\* contract:([^\s,]+),\s* at position p, then the rest of the pattern
MatchWithContractCopy(s, p, g1, g2) ==
    IF ~LitAt(s, p, "contract:") THEN Null
    ELSE Bind(SkipUntil(s, p + 9, WhiteSpace \cup {","}), LAMBDA q :
            IF q > p + 9 /\ LitAt(s, q, ",")
            THEN Bind(SkipWhile(s, q + 1, WhiteSpace), LAMBDA t :
                    MatchTopicsCopy(s, t, g1, g2, Some(SubSeq(s, p + 9, q - 1))))
            ELSE Null)

\* \s*(?:contract:([^\s,]+),\s*)? after the label, then the rest of the
\* pattern: the group is tried first, and skipped when the pattern cannot be
\* completed with it
MatchContractCopy(s, p4, g1, g2) ==
    Bind(SkipWhile(s, p4, WhiteSpace), LAMBDA p :
        Bind(MatchWithContractCopy(s, p, g1, g2), LAMBDA with :
            IF with # Null THEN with ELSE MatchTopicsCopy(s, p, g1, g2, Undefined)))

\* \s*\[([^\]]+)\] at position p2, then the rest of the pattern
MatchLabelCopy(s, p2, g1) ==
    Bind(SkipWhile(s, p2, WhiteSpace), LAMBDA p3 :
        Bind(SkipUntil(s, p3 + 1, {"]"}), LAMBDA p4 :
            IF LitAt(s, p3, "[") /\ p4 > p3 + 1 /\ LitAt(s, p4, "]")
            THEN MatchContractCopy(s, p4 + 1, g1, SubSeq(s, p3 + 1, p4 - 1))
            ELSE Null))

\* ^\s*(\d+)\s*: at the start of the line, then the rest of the pattern
MatchIndexCopy(s) ==
    Bind(SkipWhile(s, 1, WhiteSpace), LAMBDA p0 :
        Bind(SkipWhile(s, p0, Digit), LAMBDA p1 :
            Bind(SkipWhile(s, p1, WhiteSpace), LAMBDA p2 :
                IF p1 > p0 /\ LitAt(s, p2, ":")
                THEN MatchLabelCopy(s, p2 + 1, SubSeq(s, p0, p1 - 1))
                ELSE Null)))

\* line.match(/.../): Null, or the groups <<1, 2, 3, 4, 5>>. Every greedy
\* run is followed by an atom that cannot start with a character of the run,
\* so giving characters back never yields a match.
MatchCopy(str) == Bind(str, LAMBDA s : MatchIndexCopy(s))

\* eventMatch?.[1] && eventMatch?.[2] && eventMatch?.[4] && eventMatch?.[5]
IsEventEntryCopy(m) ==
    Truthy(Group(m, 1)) /\ Truthy(Group(m, 2)) /\ Truthy(Group(m, 4)) /\ Truthy(Group(m, 5))

HeaderLineCopy == "Event log (newest first):"

\* !line || line === 'Event log (newest first):'
IsSkippedCopy(ln) == Len(ln) = 0 \/ ln = HeaderLineCopy

\* if (currentEntry.index !== undefined) eventLog.push(currentEntry)
FlushCopy(log, e) == IF HasIndexCopy(e) THEN Append(log, e) ELSE log

\* const mainError = lines[0] || ''
MainErrorOfCopy(ls) == OrEmpty(At(ls, 0))

\* if (char === '[') bracketCount++; if (char === ']') bracketCount--;
NextBracketCountCopy(bc, char) ==
    IF char = "[" THEN bc + 1 ELSE IF char = "]" THEN bc - 1 ELSE bc

\* char === ',' && bracketCount === 0, bracketCount already updated for char
IsSeparatorCopy(char, bc) == char = "," /\ bc = 0

\* if (currentTopic) topics.push(currentTopic.trim())
PushLastCopy(ts, cur) == IF Len(cur) > 0 THEN Append(ts, Trim(cur)) ELSE ts

\* the object literal of "Start new entry"
NewEntryCopy(m, ts) ==
    [index |-> ParseInt(m[1][1]),
     type |-> m[2][1],
     contract |-> OrUndefined(m[3]),
     topics |-> ts,
     data |-> Trim(m[5][1])]

\* const line = lines[i]?.trim() || '' for the lines ls and the index k
LineOfCopy(ls, k) == OrEmpty(OptTrim(At(ls, k)))

\* the call parseErrorMessage(msg) before its first statement
InitFrameCopy(msg) ==
    [message |-> msg, pc |-> "split", lines |-> <<>>, mainError |-> "",
     eventLog |-> <<>>, currentEntry |-> EmptyEntry, i |-> 0, eventMatch |-> Null,
     topicsStr |-> "", topics |-> <<>>, currentTopic |-> "", bracketCount |-> 0,
     j |-> 0]

\* lines 110-114 and the initialiser of the for statement
StepSplitCopy(f) ==
    Bind(Split(f.message), LAMBDA ls :
        [f EXCEPT !.lines = ls, !.mainError = MainErrorOfCopy(ls), !.eventLog = <<>>,
                  !.currentEntry = EmptyEntry, !.i = LoopStartCopy, !.pc = "loop"])

\* lines 126-140 for the match m of a line that is not skipped
StepMatchCopy(f, m) ==
    IF ~IsEventEntryCopy(m) THEN [f EXCEPT !.eventMatch = m, !.i = f.i + 1]
    ELSE IF m = Null
    THEN [f EXCEPT !.eventMatch = m, !.eventLog = FlushCopy(f.eventLog, f.currentEntry),
                   !.pc = "raised"]
    ELSE [f EXCEPT !.eventMatch = m, !.eventLog = FlushCopy(f.eventLog, f.currentEntry),
                   !.topicsStr = m[4][1], !.topics = <<>>, !.currentTopic = "",
                   !.bracketCount = 0, !.j = 0, !.pc = "scan"]

\* lines 116-140: the test of the for statement and one line
StepLineCopy(f) ==
    IF ~(f.i < Len(f.lines)) THEN [f EXCEPT !.pc = "flush"]
    ELSE Bind(LineOfCopy(f.lines, f.i), LAMBDA ln :
            IF IsSkippedCopy(ln) THEN [f EXCEPT !.i = ContinueCopy(f.i)]
            ELSE Bind(MatchCopy(ln), LAMBDA m : StepMatchCopy(f, m)))

\* lines 142-153 for the character char and the depth bc after it
StepCharCopy(f, char, bc) ==
    IF IsSeparatorCopy(char, bc)
    THEN [f EXCEPT !.bracketCount = bc, !.topics = Append(f.topics, Trim(f.currentTopic)),
                   !.currentTopic = "", !.j = f.j + 1]
    ELSE [f EXCEPT !.bracketCount = bc, !.currentTopic = f.currentTopic \o char,
                   !.j = f.j + 1]

\* lines 142-166: the test of the scan and one character, or the new entry
StepScanCopy(f) ==
    IF f.j < Len(f.topicsStr)
    THEN Bind(CharAt(f.topicsStr, f.j + 1), LAMBDA char :
            StepCharCopy(f, char, NextBracketCountCopy(f.bracketCount, char)))
    ELSE Bind(PushLastCopy(f.topics, f.currentTopic), LAMBDA ts :
            [f EXCEPT !.topics = ts, !.currentEntry = NewEntryCopy(f.eventMatch, ts),
                      !.i = f.i + 1, !.pc = "loop"])

\* lines 169-177
StepFlushCopy(f) ==
    [f EXCEPT !.eventLog = FlushCopy(f.eventLog, f.currentEntry), !.pc = "done"]

\* one statement of the call f; a call that returned or raised stays as it is
StepOfCopy(f) ==
    CASE f.pc = "split" -> StepSplitCopy(f)
      [] f.pc = "loop" -> StepLineCopy(f)
      [] f.pc = "scan" -> StepScanCopy(f)
      [] f.pc = "flush" -> StepFlushCopy(f)
      [] OTHER -> f

\* the call f carried to the end of the scan it is in
RECURSIVE RunScanCopy(_)
RunScanCopy(f) == IF f.pc = "scan" THEN RunScanCopy(StepOfCopy(f)) ELSE f

\* the call f carried to its end
RECURSIVE RunFromCopy(_)
RunFromCopy(f) == IF f.pc \in {"done", "raised"} THEN f ELSE RunFromCopy(RunScanCopy(StepOfCopy(f)))

\* the value parseErrorMessage(msg) returns
ParseCopy(msg) ==
    Bind(RunFromCopy(InitFrameCopy(msg)), LAMBDA f :
        [mainError |-> f.mainError, eventLog |-> f.eventLog])

-----------------------------------------------------------------------------
(* Calls in progress at the same time, their statements interleaved: the
   call of the variables above and the calls of Calls. *)

Calls == {1, 2}

\* the inputs of the calls in progress at the same time
ConcInputs ==
    {[headline |-> "E",
      body |-> <<Raw(""), Raw("junk: [x"),
                 Entry("7", "7", "Foo", Undefined, "a", "x", "", "")>>],
     [headline |-> " E\t",
      body |-> <<Entry("0", "0", "Contract Event", Undefined, "a,b", "x", "", ""),
                 Entry("007", "7", "Failed Diagnostic Event (not emitted)", Some("C"),
                       "[a, b], c", " [b], data:c", " ", "\t")>>]}

\* a call of parseErrorMessage on the message of in, before its first statement
NewCall(in) == [input |-> in, frame |-> InitFrame(MessageOf(in))]

\* locals that live in one place for all calls (declared outside the function)
FrameShared(c) == 1

\* where the locals of call c live: const and let inside the function body
\* give every call its own
FrameOf(c) == c

\* call c as it sees itself: its parameter and position, the locals of its frame
View(c) ==
    [calls[FrameOf(c)].frame EXCEPT !.message = calls[c].frame.message,
                                    !.pc = calls[c].frame.pc]

\* the calls after call c has written the locals and the position of g
Written(c, g) ==
    Bind([calls EXCEPT ![FrameOf(c)].frame =
                [g EXCEPT !.message = calls[FrameOf(c)].frame.message,
                          !.pc = calls[FrameOf(c)].frame.pc]],
         LAMBDA stored : [stored EXCEPT ![c].frame.pc = g.pc])

\* call c executes the statement at position at
CallStatement(c, at) ==
    /\ calls[c].frame.pc = at
    /\ calls' = Written(c, StepOf(View(c)))
    /\ UNCHANGED <<input, message, pc, lines, mainError, eventLog, currentEntry, i,
                   eventMatch, scanVars>>

CallSplit(c) == CallStatement(c, "split")
CallLine(c) == CallStatement(c, "loop")
CallScan(c) == CallStatement(c, "scan")
CallFlush(c) == CallStatement(c, "flush")

ConcInit ==
    /\ input \in ConcInputs
    /\ InitLocals
    /\ calls \in [Calls -> {NewCall(in) : in \in ConcInputs}]

ConcNext ==
    \/ Next
    \/ \E c \in Calls : CallSplit(c) \/ CallLine(c) \/ CallScan(c) \/ CallFlush(c)

ConcSpec == ConcInit /\ [][ConcNext]_vars

-----------------------------------------------------------------------------
(* Properties *)

EntryFields == {"index", "type", "contract", "topics", "data"}

NoNewline(s) == \A k \in 1..Len(s) : CharAt(s, k) # "\n"

\* C1: parseErrorMessage never raises: no input reaches the state of a thrown
\* error, and the value returned is a ParsedError, a mainError string and an
\* eventLog sequence of entries with the five fields.
C1_NeverRaises ==
    /\ pc \in {"split", "loop", "scan", "flush", "done"}
    /\ pc = "done" =>
        /\ mainError \in STRING
        /\ DOMAIN eventLog = 1..Len(eventLog)
        /\ \A k \in 1..Len(eventLog) : DOMAIN eventLog[k] = EntryFields

\* C1 witness: an input with malformed body lines only is parsed to the end
\* and gives the empty eventLog
C1_Witness ==
    /\ pc = "done"
    /\ eventLog = <<>>
    /\ Len(input.body) = MaxBodyLines
    /\ \A k \in 1..Len(input.body) :
          input.body[k].kind = "raw" /\ ~IsSkipped(Trim(input.body[k].text))

\* C2: under the scheduling of a synchronous function every call returns, the
\* line loop advancing by one line per pass and the scan by one character
\* per pass.
C2_Terminates ==
    /\ <>(pc = "done")
    /\ [][pc = "loop" /\ pc' = "loop" => i' = i + 1]_vars
    /\ [][pc = "scan" /\ pc' = "scan" => j' = j + 1]_vars
    /\ [](pc = "done" => i >= Len(lines))

\* C2 witness: a call over MaxFairBodyLines body lines whose last line is an
\* entry line has returned, the scan having read the whole topics body
C2_Witness ==
    /\ pc = "done"
    /\ Len(lines) = MaxFairBodyLines + 1
    /\ i = Len(lines)
    /\ Len(topicsStr) > 0
    /\ j = Len(topicsStr)

\* C3: mainError is the text of the message before its first newline, the
\* headline the message was put together from, unchanged.
C3_MainErrorVerbatim ==
    pc # "split" =>
        /\ mainError = input.headline
        /\ NoNewline(mainError)
        /\ SubSeq(message, 1, Len(mainError)) = mainError
        /\ \/ Len(message) = Len(mainError)
           \/ CharAt(message, Len(mainError) + 1) = "\n"

\* C3 witness: a headline with leading and trailing whitespace, followed by
\* body lines that hold an entry, is returned as it stands
C3_Witness ==
    /\ pc = "done"
    /\ mainError = " E\t"
    /\ Len(eventLog) > 0

\* C4: an input without a newline gives mainError equal to the input and the
\* empty eventLog.
C4_SingleLine ==
    (pc = "done" /\ NoNewline(message)) => (mainError = message /\ eventLog = <<>>)

\* C4 witness: the one line of the input has the shape of an entry line
C4_Witness ==
    /\ pc = "done"
    /\ NoNewline(message)
    /\ IsEventEntry(Match(Trim(message)))
    /\ eventLog = <<>>

-----------------------------------------------------------------------------
(* What the input declares, read off the parts it was put together from *)

IsEntryShape(sh) == sh.kind = "entry"

\* the entry lines of the input, in input order
EntryShapes == SelectSeq(input.body, IsEntryShape)

\* number of '[' minus number of ']' among the first n characters of s
Depth(s, n) ==
    Cardinality({k \in 1..n : CharAt(s, k) = "["})
    - Cardinality({k \in 1..n : CharAt(s, k) = "]"})

\* number of '(' minus number of ')' among the first n characters of s
ParenDepth(s, n) ==
    Cardinality({k \in 1..n : CharAt(s, k) = "("})
    - Cardinality({k \in 1..n : CharAt(s, k) = ")"})

\* the positions, among the first n, of the commas at bracket depth 0
Separators(s, n) == {k \in 1..n : CharAt(s, k) = "," /\ Depth(s, k) = 0}

\* the m-th smallest element of a set of positions
Kth(S, m) == CHOOSE x \in S : Cardinality({y \in S : y < x}) = m - 1

\* the position where the m-th segment cut out by S starts
SegmentStart(S, m) == IF m = 1 THEN 1 ELSE Kth(S, m - 1) + 1

\* the m-th segment of s that a separator of S closes
ClosedSegment(s, S, m) == SubSeq(s, SegmentStart(S, m), Kth(S, m) - 1)

\* the topics of a topics body: the trimmed segments between the commas at
\* depth 0, and the trimmed text after the last one unless it is empty
TopicsOfBody(s) ==
    LET S == Separators(s, Len(s))
        n == Cardinality(S)
        closed == [m \in 1..n |-> Trim(ClosedSegment(s, S, m))]
        last == SubSeq(s, SegmentStart(S, n + 1), Len(s))
    IN  IF Len(last) > 0 THEN Append(closed, Trim(last)) ELSE closed

\* the entry e holds what the entry line sh declares, its number as a Number
DerivedFrom(e, sh) ==
    /\ e.index = ToDouble(sh.num)
    /\ e.type = sh.label
    /\ e.contract = sh.contract
    /\ e.topics = TopicsOfBody(sh.body)
    /\ e.data = Trim(sh.data)

\* the scan is over and currentEntry holds the entry of topicsStr
EntryBuilt == pc \in {"loop", "flush", "done"} /\ HasIndex(currentEntry)

\* C5: the returned eventLog holds one entry per body line that matches the
\* entry grammar, in input order, each derived from its line.
C5_OneEntryPerMatchingLine ==
    pc = "done" =>
        /\ Len(eventLog) =
              Cardinality({k \in 2..Len(lines) : IsEventEntry(Match(Trim(lines[k])))})
        /\ Len(eventLog) = Len(EntryShapes)
        /\ \A k \in 1..Len(eventLog) : DerivedFrom(eventLog[k], EntryShapes[k])

\* C5 witness: two different entry lines gave two entries
C5_Witness ==
    /\ pc = "done"
    /\ Len(eventLog) = 2
    /\ eventLog[1] # eventLog[2]

\* C6: the index values of the eventLog are the numbers the entry lines
\* declare, digit for digit and in input order, duplicates and decreasing
\* numbers included.
C6_IndexSequence ==
    pc = "done" =>
        [k \in 1..Len(eventLog) |-> eventLog[k].index]
            = [k \in 1..Len(EntryShapes) |-> EntryShapes[k].num]

\* C7: every entry of the eventLog has one of the four type labels.
C7_TypeValidated ==
    \A k \in 1..Len(eventLog) : eventLog[k].type \in TypeLabels

\* C8: the contract of an entry is absent when its line has no contract
\* segment and is X when the line has contract:X, before topics:[; a present
\* contract is a non-empty string without whitespace or comma.
C8_Contract ==
    pc = "done" =>
        \A k \in 1..Len(eventLog) :
            /\ k <= Len(EntryShapes)
            /\ eventLog[k].contract = EntryShapes[k].contract
            /\ eventLog[k].contract # Undefined =>
                  LET c == eventLog[k].contract[1]
                  IN  /\ Len(c) > 0
                      /\ \A n \in 1..Len(c) : CharAt(c, n) \notin WhiteSpace \cup {","}

\* C8 witness: a line without a contract segment and a line with one were parsed
C8_Witness ==
    /\ pc = "done"
    /\ Len(eventLog) = 2
    /\ eventLog[1].contract = Undefined
    /\ eventLog[2].contract = Some("MOCK_CONTRACT_B")

\* C9: a comma of the topics body separates two topics exactly when the
\* bracket depth at the comma is 0: during the scan the topics pushed are the
\* trimmed segments closed by the depth-0 commas read so far and the buffer
\* is the text after the last of them; a bracketed group stays in one topic.
C9_SplitAtDepthZero ==
    /\ pc = "scan" =>
          LET S == Separators(topicsStr, j)
          IN  /\ Len(topics) = Cardinality(S)
              /\ \A m \in 1..Len(topics) : topics[m] = Trim(ClosedSegment(topicsStr, S, m))
              /\ currentTopic = SubSeq(topicsStr, SegmentStart(S, Cardinality(S) + 1), j)
    /\ EntryBuilt =>
          /\ currentEntry.topics = TopicsOfBody(topicsStr)
          /\ topicsStr = "[Accrual], \"updated\"" =>
                currentEntry.topics = <<"[Accrual]", "\"updated\"">>

\* C9 witness: a body with a comma inside brackets and a comma at depth 0
C9_Witness ==
    /\ EntryBuilt
    /\ topicsStr = "[a, b], c"
    /\ currentEntry.topics = <<"[a, b]", "c">>

\* C10: parentheses do not protect a comma: a comma at bracket depth 0 that
\* lies inside parentheses closes a topic.
C10_ParenthesesSplit ==
    EntryBuilt =>
        /\ topicsStr = "error, Error(WasmVm, InvalidAction)" =>
              currentEntry.topics = <<"error", "Error(WasmVm", "InvalidAction)">>
        /\ \A k \in 1..Len(topicsStr) :
              (/\ CharAt(topicsStr, k) = ","
               /\ Depth(topicsStr, k) = 0
               /\ ParenDepth(topicsStr, k) > 0) =>
                  LET S == Separators(topicsStr, k)
                      m == Cardinality(S)
                  IN  /\ Len(currentEntry.topics) >= m
                      /\ currentEntry.topics[m] = Trim(ClosedSegment(topicsStr, S, m))

\* C10 witness: the topics of the first example line
C10_Witness ==
    /\ EntryBuilt
    /\ topicsStr = "error, Error(WasmVm, InvalidAction)"
    /\ Len(currentEntry.topics) = 3

-----------------------------------------------------------------------------
\* s ends with t
EndsWith(s, t) == Len(t) <= Len(s) /\ SubSeq(s, Len(s) - Len(t) + 1, Len(s)) = t

\* the k-th line of the message that gave an entry (1-based position in lines)
EntryLineAt(k) ==
    Kth({n \in 2..Len(lines) : IsEventEntry(Match(Trim(lines[n])))}, k)

\* C11: the data of an entry is the text its line has after the data: marker,
\* to the end of the line, with the whitespace at both ends removed and every
\* inner character kept: the trimmed line ends with "data:", whitespace and
\* the data.
C11_DataVerbatim ==
    pc = "done" =>
        \A k \in 1..Len(eventLog) :
            /\ eventLog[k].data = Trim(EntryShapes[k].data)
            /\ eventLog[k].data = Trim(eventLog[k].data)
            /\ Len(eventLog[k].data) > 0
            /\ \E sp \in {"", " "} :
                  EndsWith(Trim(lines[EntryLineAt(k)]), "data:" \o sp \o eventLog[k].data)

\* C11 witness: data with brackets, braces, a colon and commas, and data that
\* follows the marker after a space
C11_Witness ==
    /\ pc = "done"
    /\ Len(eventLog) = 2
    /\ eventLog[1].data = "[Loan, {borrower_address: MOCK_ADDRESS, nonce: 3}]"
    /\ EntryShapes[2].data = " [b], data:c"
    /\ eventLog[2].data = "[b], data:c"

-----------------------------------------------------------------------------
\* the line l of a message gives an entry
IsEntryLine(l) == IsEventEntry(Match(Trim(l)))

\* the message without the body lines that give no entry
WithoutIgnored == Head(lines) \o JoinLines(SelectSeq(Tail(lines), IsEntryLine))

\* C12: a body line that is blank, the header or outside the entry grammar
\* changes neither the eventLog nor the entry under construction and the loop
\* goes on to the next line; the result is that of the message without such
\* lines, computed by Parse, which takes a call where the actions take it.
C12_IgnoredLines ==
    /\ [][(pc = "loop" /\ i < Len(lines) /\ ~IsEventEntry(Match(line)))
            => (/\ eventLog' = eventLog
                /\ currentEntry' = currentEntry
                /\ pc' = "loop"
                /\ i' = i + 1)]_vars
    /\ [](pc = "done" => Result = Parse(WithoutIgnored))
    /\ StepOfAgrees

\* C12 witness: a line outside the grammar was passed while the entry of the
\* line before it was under construction
C12_Witness ==
    /\ pc = "loop"
    /\ i = 3
    /\ HasIndex(currentEntry)
    /\ input.body[2] = Raw("junk: [x")

-----------------------------------------------------------------------------
\* C13: a call returns what a first call on the same message returns, whatever
\* the calls before it left behind: from its first statement on, the eventLog
\* and the entry under construction hold entries of the call's own input only
\* and the depth of a scan counts the brackets of the call's own topics body.
C13_Stateless ==
    /\ pc = "done" => Result = Parse(message)
    /\ pc # "split" =>
          /\ Len(eventLog) <= Len(EntryShapes)
          /\ \A k \in 1..Len(eventLog) : DerivedFrom(eventLog[k], EntryShapes[k])
          /\ HasIndex(currentEntry) =>
                \E k \in 1..Len(EntryShapes) : DerivedFrom(currentEntry, EntryShapes[k])
    /\ pc = "scan" => bracketCount = Depth(topicsStr, j)

\* C13 witness: a call on an input without entry lines returned the empty
\* eventLog after a call that had scanned a topics body
C13_Witness ==
    /\ pc = "done"
    /\ EntryShapes = <<>>
    /\ eventLog = <<>>
    /\ Len(topicsStr) > 0

-----------------------------------------------------------------------------
\* the eventLog of the message made of the headline and the body lines
\* from..to of the running call (body line 1 is lines[2])
LogOfPart(from, to) ==
    Parse(Head(lines) \o JoinLines(SubSeq(lines, from + 1, to + 1))).eventLog

\* C14: for every way of cutting the body lines in two parts, the eventLog
\* returned is the eventLog of the headline with the first part followed by
\* the eventLog of the headline with the second part.
C14_Compositional ==
    pc = "done" =>
        \A k \in 0..(Len(lines) - 1) :
            eventLog = LogOfPart(1, k) \o LogOfPart(k + 1, Len(lines) - 1)

\* C14 witness: two entry lines that declare the same number, each giving
\* its entry
C14_Witness ==
    /\ pc = "done"
    /\ Len(lines) = 3
    /\ Len(eventLog) = 2
    /\ Len(LogOfPart(1, 1)) = 1
    /\ Len(LogOfPart(2, 2)) = 1
    /\ eventLog[1].index = eventLog[2].index

-----------------------------------------------------------------------------
\* the value the call c returns
ResultOf(c) ==
    [mainError |-> calls[c].frame.mainError, eventLog |-> calls[c].frame.eventLog]

\* a is the beginning of b
IsPrefix(a, b) == Len(a) <= Len(b) /\ SubSeq(b, 1, Len(a)) = a

\* C15: with the statements of several calls interleaved in any order, every
\* call returns what it returns alone, and at no point does the eventLog of
\* a call hold anything but the first entries of its own result.
C15_Concurrent ==
    /\ pc = "done" => Result = Parse(message)
    /\ pc # "split" => IsPrefix(eventLog, Parse(message).eventLog)
    /\ \A c \in DOMAIN calls :
          /\ calls[c].frame.pc # "raised"
          /\ calls[c].frame.pc = "done" => ResultOf(c) = Parse(calls[c].frame.message)
          /\ calls[c].frame.pc # "split" =>
                IsPrefix(calls[c].frame.eventLog, Parse(calls[c].frame.message).eventLog)

\* C15 witness: two calls on different messages are both in the middle of a
\* scan, one of them with an entry under construction and an entry pushed
C15_Witness ==
    /\ DOMAIN calls = Calls
    /\ calls[1].frame.pc = "scan"
    /\ calls[2].frame.pc = "scan"
    /\ calls[1].frame.message # calls[2].frame.message
    /\ calls[1].frame.j > 0
    /\ calls[2].frame.j > 0
    /\ HasIndex(calls[2].frame.currentEntry)

-----------------------------------------------------------------------------
\* number of entry lines among the body lines the loop has passed when its
\* index is n (the source's lines[1..n-1])
Matched(n) ==
    Cardinality({k \in 1..(n - 1) : k <= Len(input.body) /\ IsEntryShape(input.body[k])})

\* 1 if currentEntry holds an entry, 0 if it is the empty slot
Pending == IF HasIndex(currentEntry) THEN 1 ELSE 0

\* C16: between two lines and after the loop, the entries in eventLog plus
\* the entry in currentEntry are as many as the entry lines passed; while a
\* line is scanned the entry of the line before it is already the last of
\* eventLog; eventLog only grows, by the entry of currentEntry, when the next
\* entry line is met or at the final flush; the empty slot is never pushed.
C16_OneSlotBuffer ==
    /\ [](pc \in {"loop", "flush"} => Len(eventLog) + Pending = Matched(i))
    /\ [](pc = "scan" =>
            /\ Len(eventLog) = Matched(i)
            /\ HasIndex(currentEntry) => eventLog[Len(eventLog)] = currentEntry)
    /\ [](pc = "done" => Len(eventLog) = Matched(Len(lines)))
    /\ [](\A k \in 1..Len(eventLog) : HasIndex(eventLog[k]))
    /\ [][\/ eventLog' = eventLog
          \/ /\ HasIndex(currentEntry)
             /\ eventLog' = Append(eventLog, currentEntry)
             /\ \/ pc = "loop" /\ pc' = "scan"
                \/ pc = "flush" /\ pc' = "done"]_vars

\* C16 witness: after the loop over two entry lines the first entry is in
\* eventLog and the second waits in currentEntry for the final flush
C16_Witness ==
    /\ pc = "flush"
    /\ Len(lines) = 3
    /\ Len(eventLog) = 1
    /\ HasIndex(currentEntry)
    /\ eventLog[1] # currentEntry

-----------------------------------------------------------------------------
\* x is data: followed by at least one character
IsDataPart(x) == Len(x) > 5 /\ SubSeq(x, 1, 5) = "data:"

\* the position in the line L of the last character of the topics body, given
\* the data d the line ends with: before d stand "],", whitespace and data:
TopicsLast(L, d) ==
    CHOOSE e \in 1..Len(L) :
        /\ SubSeq(L, e + 1, e + 2) = "],"
        /\ TrimStart(SubSeq(L, e + 3, Len(L))) = "data:" \o d

\* C17: on an entry line the topics body is the text between topics:[ and
\* the first "]," that is followed by optional whitespace, data: and at least
\* one character, and data is all that follows this data: to the end of the
\* line: no "]," inside the topics body is followed by data:, and a later
\* "], data:" belongs to data.
C17_FirstDataMarker ==
    pc = "scan" =>
        LET L == line
            t == eventMatch[4][1]
            d == eventMatch[5][1]
            last == TopicsLast(L, d)
        IN  /\ EndsWith(L, "data:" \o d)
            /\ \E e \in 1..Len(L) :
                  /\ SubSeq(L, e + 1, e + 2) = "],"
                  /\ TrimStart(SubSeq(L, e + 3, Len(L))) = "data:" \o d
            /\ Len(t) > 0
            /\ SubSeq(L, last - Len(t) + 1, last) = t
            /\ SubSeq(L, last - Len(t) - 7, last - Len(t)) = "topics:["
            /\ \A e \in (last - Len(t) + 1)..(last - 1) :
                  ~(/\ SubSeq(L, e + 1, e + 2) = "],"
                    /\ IsDataPart(TrimStart(SubSeq(L, e + 3, Len(L)))))
            /\ t = input.body[i].body
            /\ d = TrimEnd(input.body[i].data)

\* C17 witness: topics:[a], data:[b], data:c gave the topics body a and the
\* data [b], data:c
C17_Witness ==
    /\ EntryBuilt
    /\ EndsWith(Trim(lines[i]), "topics:[a], data:[b], data:c")
    /\ currentEntry.topics = <<"a">>
    /\ currentEntry.data = "[b], data:c"

-----------------------------------------------------------------------------
\* C18: the index of an entry is the integer its line's digit group writes in
\* base 10, leading zeros ignored, and a line whose number is not a run of
\* digits alone gives no entry.
C18_IndexValue ==
    pc = "done" =>
        /\ Len(eventLog) = Len(EntryShapes)
        /\ \A k \in 1..Len(eventLog) :
              eventLog[k].index = StripZeros(EntryShapes[k].idx)

-----------------------------------------------------------------------------
\* the text of s after its last comma at depth 0, all of s if it has none
AfterLastSeparator(s) ==
    SubSeq(s, SegmentStart(Separators(s, Len(s)), Cardinality(Separators(s, Len(s))) + 1),
           Len(s))

\* C19: a topics body gives as many topics as it has commas at depth 0, and
\* one more if the text after the last of them is not empty, whitespace
\* counting as text: "a," gives one topic, "a,," and "a, " give a second,
\* empty one.
C19_TopicCount ==
    EntryBuilt =>
        /\ Len(currentEntry.topics) =
              Cardinality(Separators(topicsStr, Len(topicsStr)))
              + (IF Len(AfterLastSeparator(topicsStr)) > 0 THEN 1 ELSE 0)
        /\ topicsStr = "a," => currentEntry.topics = <<"a">>
        /\ topicsStr = "a,," => currentEntry.topics = <<"a", "">>
        /\ topicsStr = "a,,b" => currentEntry.topics = <<"a", "", "b">>
        /\ topicsStr = "a, " => currentEntry.topics = <<"a", "">>

\* C19 witness: the body "a, " gave the topic a and an empty topic
C19_Witness ==
    /\ EntryBuilt
    /\ topicsStr = "a, "
    /\ currentEntry.topics = <<"a", "">>

-----------------------------------------------------------------------------
\* the message with every body line replaced by its image under F
WithBodyLines(F(_)) ==
    Head(lines) \o JoinLines([k \in 1..(Len(lines) - 1) |-> F(lines[k + 1])])

\* a line with whitespace added at both ends
Padded(l) == " \t" \o l \o " \r"

\* C20: the result is that of the message with the whitespace at both ends
\* of every body line removed, and that of the message with whitespace added
\* at both ends of every body line.
C20_LineWhitespace ==
    pc = "done" =>
        /\ Result = Parse(WithBodyLines(Trim))
        /\ Result = Parse(WithBodyLines(Padded))

\* C20 witness: an entry line that ends with a carriage return and one that
\* starts and ends with blanks gave their entries
C20_Witness ==
    /\ pc = "done"
    /\ Len(eventLog) > 0
    /\ \E k \in 2..Len(lines) :
          /\ lines[k] # Trim(lines[k])
          /\ CharAt(lines[k], Len(lines[k])) \in {"\r", " "}
          /\ IsEntryLine(lines[k])

-----------------------------------------------------------------------------
\* bodies to put after the first line of the running call
OtherBodies ==
    {<<>>, <<"junk: [x">>, <<Render(ExampleLine9), "", Render(ExampleLine12)>>}

\* C21: the eventLog is the same whatever first line stands before the body
\* lines of the message, a first line with the shape of an entry line
\* included, and mainError is the same whatever body lines follow the first
\* line of the message.
C21_DisjointParts ==
    pc = "done" =>
        /\ \A h \in Headlines :
              Parse(h \o JoinLines(Tail(lines))).eventLog = eventLog
        /\ \A b \in OtherBodies :
              Parse(Head(lines) \o JoinLines(b)).mainError = mainError

\* C21 witness: a message with two entries whose eventLog is also that of the
\* same body after a first line with the shape of an entry line, and whose
\* mainError is also that of its first line alone
C21_Witness ==
    /\ pc = "done"
    /\ Len(eventLog) = 2
    /\ mainError = " E\t"
    /\ IsEntryLine("0: [Contract Event] topics:[a], data:x")
    /\ Parse("0: [Contract Event] topics:[a], data:x" \o JoinLines(Tail(lines))).eventLog
          = eventLog
    /\ Parse(Head(lines)) = [mainError |-> mainError, eventLog |-> <<>>]

-----------------------------------------------------------------------------
\* s is made of whitespace alone
IsBlank(s) == Len(Trim(s)) = 0

\* C22: every entry has at least one topic, in the eventLog and under
\* construction; a topics body that is one comma, or whitespace alone, gives
\* the single topic "".
C22_TopicsNotEmpty ==
    /\ \A k \in 1..Len(eventLog) : Len(eventLog[k].topics) >= 1
    /\ EntryBuilt =>
          /\ Len(currentEntry.topics) >= 1
          /\ Len(topicsStr) >= 1
          /\ (topicsStr = "," \/ IsBlank(topicsStr)) => currentEntry.topics = <<"">>

\* C22 witness: the topics body "," gave the entry returned, with the one
\* topic ""
C22_Witness ==
    /\ pc = "done"
    /\ topicsStr = ","
    /\ Len(eventLog) = 1
    /\ eventLog[1].topics = <<"">>

\* C22 witness of the other case: a topics body of two blanks
C22_WitnessBlank ==
    /\ pc = "done"
    /\ topicsStr = "  "
    /\ Len(eventLog) = 1
    /\ eventLog[1].topics = <<"">>

-----------------------------------------------------------------------------
\* s has at least one character and neither starts nor ends with whitespace
IsTrimmedText(s) ==
    /\ Len(s) > 0
    /\ CharAt(s, 1) \notin WhiteSpace
    /\ CharAt(s, Len(s)) \notin WhiteSpace

\* C23: the data of every entry, in the eventLog and under construction, is
\* a non-empty string that neither starts nor ends with whitespace.
C23_DataTrimmed ==
    /\ \A k \in 1..Len(eventLog) : IsTrimmedText(eventLog[k].data)
    /\ HasIndex(currentEntry) => IsTrimmedText(currentEntry.data)

\* C23 witness: a line with whitespace between data: and the data and with
\* whitespace at its end gave an entry
C23_Witness ==
    /\ pc = "done"
    /\ \E k \in 1..Len(eventLog) :
          /\ EntryShapes[k].data = " [b], data:c"
          /\ EntryShapes[k].pad = "\t"
          /\ eventLog[k].data = "[b], data:c"

-----------------------------------------------------------------------------
\* s is empty or neither starts nor ends with whitespace
HasNoOuterWhitespace(s) ==
    Len(s) = 0 \/ (CharAt(s, 1) \notin WhiteSpace /\ CharAt(s, Len(s)) \notin WhiteSpace)

\* C24: no topic starts or ends with whitespace: the topics a depth-0 comma
\* closed, while the scan runs, and all the topics of every entry, the last
\* one included, under construction and in the eventLog.
C24_TopicsTrimmed ==
    /\ \A m \in 1..Len(topics) : HasNoOuterWhitespace(topics[m])
    /\ HasIndex(currentEntry) =>
          \A m \in 1..Len(currentEntry.topics) : HasNoOuterWhitespace(currentEntry.topics[m])
    /\ \A k \in 1..Len(eventLog) :
          \A m \in 1..Len(eventLog[k].topics) : HasNoOuterWhitespace(eventLog[k].topics[m])

\* C24 witness: in the body " a ,<tab>b " both the topic the comma closes and
\* the last topic stand between whitespace
C24_Witness ==
    /\ pc = "done"
    /\ topicsStr = " a ,\tb "
    /\ Len(eventLog) = 1
    /\ eventLog[1].topics = <<"a", "b">>

-----------------------------------------------------------------------------
\* the least depth among the first n characters of s
MinDepth(s, n) ==
    IF n = 0 THEN 0
    ELSE CHOOSE d \in {Depth(s, k) : k \in 0..n} : \A k \in 0..n : d <= Depth(s, k)

\* C25: the depth of the scan is the number of '[' read minus the number of
\* ']' read, below 0 when a ']' comes with no '[' open; while it is not 0,
\* below 0 included, a comma is kept in the buffer and closes no topic, and
\* once enough '[' bring it back to 0 a comma closes a topic again: the body
\* "a], b" gives the one topic "a], b".
C25_DepthNotClamped ==
    /\ [](pc = "scan" => bracketCount = Depth(topicsStr, j))
    /\ [][(pc = "scan" /\ pc' = "scan" /\ bracketCount' # 0)
            => (topics' = topics /\ currentTopic' = currentTopic \o CharAt(topicsStr, j'))]_vars
    /\ [][(pc = "scan" /\ pc' = "scan" /\ bracketCount' = 0 /\ CharAt(topicsStr, j') = ",")
            => (Len(topics') = Len(topics) + 1 /\ currentTopic' = "")]_vars
    /\ [](EntryBuilt =>
            /\ currentEntry.topics = TopicsOfBody(topicsStr)
            /\ topicsStr = "a], b" => currentEntry.topics = <<"a], b">>
            /\ topicsStr = "][,]" => currentEntry.topics = <<"][", "]">>
            /\ topicsStr = "a],[b,c" => currentEntry.topics = <<"a],[b", "c">>
            /\ topicsStr = "a]],[,b" => currentEntry.topics = <<"a]],[,b">>)

\* C25 witness: the line "... topics:[a], b], data:x" was scanned with the
\* depth at -1 and gave the one topic "a], b"
C25_Witness ==
    /\ EntryBuilt
    /\ EndsWith(Trim(lines[i]), "topics:[a], b], data:x")
    /\ topicsStr = "a], b"
    /\ bracketCount = 0 - 1
    /\ MinDepth(topicsStr, Len(topicsStr)) < 0
    /\ currentEntry.topics = <<"a], b">>

\* C25 witness of the return to 0: in "a],[b,c" the comma after b is read at
\* depth 0, after the depth was -1, and closes a topic
C25_WitnessBackToZero ==
    /\ EntryBuilt
    /\ topicsStr = "a],[b,c"
    /\ MinDepth(topicsStr, Len(topicsStr)) < 0
    /\ currentEntry.topics = <<"a],[b", "c">>

-----------------------------------------------------------------------------
\* the position in the line L of the first ']', the one that closes the type
\* label of an entry line; 0 if L has none
LabelClose(L) ==
    LET cl == {k \in 1..Len(L) : CharAt(L, k) = "]"}
    IN  IF cl = {} THEN 0 ELSE CHOOSE k \in cl : \A n \in cl : k <= n

\* the positions after the label where topics:[ stands in L
TopicsMarks(L) == {p \in (LabelClose(L) + 1)..Len(L) : LitAt(L, p, "topics:[")}

\* t is a contract token: not empty, without whitespace and without comma
IsToken(t) == Len(t) > 0 /\ \A k \in 1..Len(t) : CharAt(t, k) \notin WhiteSpace \cup {","}

\* the text m between the label and topics:[ is whitespace alone or one
\* contract:<token>, with whitespace around it
IsContractField(m) ==
    LET t == TrimEnd(TrimStart(m))
    IN  \/ Len(t) = 0
        \/ /\ Len(t) > 10
           /\ SubSeq(t, 1, 9) = "contract:"
           /\ CharAt(t, Len(t)) = ","
           /\ IsToken(SubSeq(t, 10, Len(t) - 1))

\* L has a label and topics:[ after it, and wherever topics:[ stands the text
\* between the label and it is no contract field
HasMalformedContract(L) ==
    /\ LabelClose(L) > 0
    /\ TopicsMarks(L) # {}
    /\ \A p \in TopicsMarks(L) : ~IsContractField(SubSeq(L, LabelClose(L) + 1, p - 1))

IsWellFormedContractLine(l) == ~HasMalformedContract(TrimEnd(TrimStart(l)))

\* the message without the body lines whose contract field is malformed
WithoutMalformedContract ==
    Head(lines) \o JoinLines(SelectSeq(Tail(lines), IsWellFormedContractLine))

\* C26: a line whose text between the label and topics:[ is neither
\* whitespace nor one contract:<token>, gives no entry, not even one with an
\* absent contract: it changes neither the eventLog nor the entry under
\* construction, the loop goes on to the next line, and the result is that of
\* the message without such lines.
C26_MalformedContract ==
    /\ [][(pc = "loop" /\ i < Len(lines) /\ HasMalformedContract(line))
            => (/\ eventLog' = eventLog
                /\ currentEntry' = currentEntry
                /\ pc' = "loop"
                /\ i' = i + 1)]_vars
    /\ [](pc = "done" => Result = Parse(WithoutMalformedContract))

\* C26 witness: a line with a contract token that holds a space was passed
\* while the entry of the line before it was under construction, and the
\* call returned the entries of the lines around it
C26_Witness ==
    /\ pc = "done"
    /\ Len(lines) = 4
    /\ lines[3] = "1: [Contract Event] contract:A B, topics:[a], data:x"
    /\ HasMalformedContract(lines[3])
    /\ Len(eventLog) = 2
    /\ eventLog[2].contract = Some("C")

-----------------------------------------------------------------------------
\* x holds a character that is not whitespace
HasText(x) == \E k \in 1..Len(x) : CharAt(x, k) \notin WhiteSpace

\* at position e of L stands "]," followed by optional whitespace, data: and
\* text
IsDataMarker(L, e) ==
    /\ LitAt(L, e, "],")
    /\ LET x == TrimStart(SubSeq(L, e + 2, Len(L)))
       IN  Len(x) >= 5 /\ SubSeq(x, 1, 5) = "data:" /\ HasText(SubSeq(x, 6, Len(x)))

\* the positions of L where the topics body of an entry line starts: after a
\* topics:[ that follows the label and a contract field
BodyStarts(L) ==
    {p + 8 : p \in {q \in TopicsMarks(L) :
                        IsContractField(SubSeq(L, LabelClose(L) + 1, q - 1))}}

\* L has an empty topics list, or nothing after its last data:, and no "],"
\* after the start of its topics body is followed by data: and text
HasEmptyField(L) ==
    \E t \in BodyStarts(L) :
        /\ LitAt(L, t, "],") \/ EndsWith(L, "data:")
        /\ \A e \in (t + 1)..Len(L) : ~IsDataMarker(L, e)

HasNoEmptyField(l) == ~HasEmptyField(TrimEnd(TrimStart(l)))

\* the message without the body lines that have such an empty field
WithoutEmptyField ==
    Head(lines) \o JoinLines(SelectSeq(Tail(lines), HasNoEmptyField))

\* C27: a line with topics:[] or with nothing but whitespace after data:, in
\* which no later "]," is followed by data: and text, gives no entry: it
\* changes neither the eventLog nor the entry under construction, the loop
\* goes on to the next line, and the result is that of the message without
\* such lines.
C27_EmptyField ==
    /\ [][(pc = "loop" /\ i < Len(lines) /\ HasEmptyField(line))
            => (/\ eventLog' = eventLog
                /\ currentEntry' = currentEntry
                /\ pc' = "loop"
                /\ i' = i + 1)]_vars
    /\ [](pc = "done" => Result = Parse(WithoutEmptyField))

\* C27 witness: a line with topics:[] was passed between two entry lines
C27_Witness ==
    /\ pc = "done"
    /\ Len(lines) = 4
    /\ lines[3] = "1: [Contract Event] topics:[], data:x"
    /\ HasEmptyField(lines[3])
    /\ Len(eventLog) = 2

\* C27 witness of the other case: a line with whitespace alone after data:
C27_WitnessBlankData ==
    /\ pc = "done"
    /\ Len(lines) = 4
    /\ lines[3] = "1: [Contract Event] topics:[a], data: \t"
    /\ HasEmptyField(Trim(lines[3]))
    /\ Len(eventLog) = 2

\* C27 witness of the condition: topics:[] followed by a later "]," with
\* data: and text gave an entry
C27_WitnessLaterMarker ==
    /\ pc = "done"
    /\ Len(lines) = 4
    /\ EndsWith(lines[3], "topics:[], data:x], data: y")
    /\ ~HasEmptyField(lines[3])
    /\ Len(eventLog) = 3
    /\ eventLog[2].topics = <<"], data:x">>
    /\ eventLog[2].data = "y"

-----------------------------------------------------------------------------
\* the copy's call on msg, carried to the test of its line loop with the
\* index n (or to its end)
RECURSIVE CopyAtLine(_, _)
CopyAtLine(f, n) ==
    IF f.pc \in {"done", "raised"} \/ (f.pc = "loop" /\ f.i = n) THEN f
    ELSE CopyAtLine(RunScanCopy(StepOfCopy(f)), n)

\* C28: the two definitions of parseErrorMessage are equivalent: every
\* statement of the first is the statement the copy executes in the same
\* state; at every test of the line loop the copy, run on the same message
\* to the same line, has the same eventLog and the same entry under
\* construction; and the copy returns the result the first returns.
C28_CopiesEquivalent ==
    /\ [][Frame' = StepOfCopy(Frame)]_vars
    /\ [](pc = "loop" =>
            LET f == CopyAtLine(InitFrameCopy(message), i)
            IN  /\ f.pc = "loop"
                /\ f.i = i
                /\ f.eventLog = eventLog
                /\ f.currentEntry = currentEntry)
    /\ [](pc = "done" => ParseCopy(message) = Result)

\* C28 witness: both definitions returned the two entries of a message with
\* a contract field, a line outside the grammar and nested brackets
C28_Witness ==
    /\ pc = "done"
    /\ Len(lines) = 4
    /\ ~IsEntryLine(lines[3])
    /\ Len(eventLog) = 2
    /\ eventLog[2].contract = Some("C")
    /\ ParseCopy(message).eventLog = eventLog
    /\ CopyAtLine(InitFrameCopy(message), 3).currentEntry = eventLog[1]

====
